---- MODULE Spec2Model ----
(***************************************************************************)
(* A model of the code examples of codeformatting/c++practices.cpp.        *)
(*                                                                         *)
(* The file is a style guide whose code blocks come in before/after pairs. *)
(* Each pair is modelled as two runs over the same input, every statement  *)
(* of a block being one action, and each pair has a specification of its   *)
(* own (SpecIndent, SpecCleanup, SpecTernary, SpecPrefix, SpecExample,     *)
(* SpecNames).  The variables of the other pairs keep their idle values.   *)
(***************************************************************************)
EXTENDS Integers, Sequences, FiniteSets, TLC

VARIABLES
    sideEffect,   \* indentation pair: what each do* call does to the conditions
    nestedRun,    \* indentation pair: run of the nested if/else block
    earlyRun,     \* indentation pair: run of the early-exit block
    wentWrong,    \* cleanup pair: results of the two ...WentWrong() calls
    plainRun,     \* cleanup pair: run of the block with the cleanup written out
    lambdaRun,    \* cleanup pair: run of the block with the cleanup lambda
    x,            \* ternary pair: the int compared with 2
    ifElseRun,    \* ternary pair: run of the six-line if/else block
    ternaryRun,   \* ternary pair: run of the one-line block
    helpers,      \* Example: the helper objects in scope at the construction
    ctor,         \* Example: the constructor's position, and the object
    bytes,        \* prefix pair: the input size (`bytes`, `size`)
    whileRun,     \* prefix pair: run of the while-loop block
    findIfRun,    \* prefix pair: run of the find_if block
    lookup        \* name lookup: the use being resolved and how far it got

indentVars == <<sideEffect, nestedRun, earlyRun>>

cleanupVars == <<wentWrong, plainRun, lambdaRun>>

ternaryVars == <<x, ifElseRun, ternaryRun>>

exampleVars == <<helpers, ctor>>

prefixVars == <<bytes, whileRun, findIfRun>>

vars == <<indentVars, cleanupVars, ternaryVars, exampleVars, prefixVars, lookup>>

Idle == "idle"

IdleIndent == sideEffect = Idle /\ nestedRun = Idle /\ earlyRun = Idle

IdleCleanup == wentWrong = Idle /\ plainRun = Idle /\ lambdaRun = Idle

IdleTernary == x = Idle /\ ifElseRun = Idle /\ ternaryRun = Idle

IdleExample == helpers = Idle /\ ctor = Idle

IdlePrefix == bytes = Idle /\ whileRun = Idle /\ findIfRun = Idle

notIndent == <<cleanupVars, ternaryVars, exampleVars, prefixVars, lookup>>

notCleanup == <<indentVars, ternaryVars, exampleVars, prefixVars, lookup>>

notTernary == <<indentVars, cleanupVars, exampleVars, prefixVars, lookup>>

notExample == <<indentVars, cleanupVars, ternaryVars, prefixVars, lookup>>

IdleLookup == lookup = Idle

notLookup == <<indentVars, cleanupVars, ternaryVars, exampleVars, prefixVars>>

notPrefix == <<indentVars, cleanupVars, ternaryVars, exampleVars, lookup>>

(***************************************************************************)
(* Main code path and indentation (lines 281-317).                         *)
(*                                                                         *)
(* The three conditions are plain names read at the if statements; the     *)
(* do* functions are not defined in the file, so a call may change any of  *)
(* the conditions.  sideEffect[f] is the set of conditions call f flips,   *)
(* the same for both blocks.                                               *)
(***************************************************************************)
Conds == {"something", "somethingElse", "somethingElseAgain"}

InnerCalls == {"doSomething", "doSomethingElse"}

LastCalls == {"doNothing", "doTheOther", "doDifferent", "doThing"}

DoCalls == InnerCalls \cup LastCalls

\* A call flips the conditions in its side effect and is appended to the
\* sequence of calls made so far; control continues at `next`.
Call(run, f, next) ==
    [pc    |-> next,
     cond  |-> [c \in Conds |->
                  IF c \in sideEffect[f] THEN ~run.cond[c] ELSE run.cond[c]],
     calls |-> Append(run.calls, f)]

Goto(run, next) == [run EXCEPT !.pc = next]

StartRun(cond) == [pc |-> "start", cond |-> cond, calls |-> <<>>]

InitIndent ==
    /\ sideEffect \in {e \in [DoCalls -> SUBSET Conds] :
                          \A f \in LastCalls : e[f] \in {{}, Conds}}
    /\ \E cond \in [Conds -> BOOLEAN] :
          /\ nestedRun = StartRun(cond)
          /\ earlyRun = StartRun(cond)
    /\ IdleCleanup /\ IdleTernary /\ IdleExample /\ IdlePrefix /\ IdleLookup

\* ---- the nested block, lines 283-297
NestedIfSomething ==
    /\ nestedRun.pc = "start"
    /\ nestedRun' = Goto(nestedRun, IF nestedRun.cond["something"]
                                    THEN "doSomething" ELSE "doNothing")
    /\ UNCHANGED <<sideEffect, earlyRun, notIndent>>

NestedDoSomething ==
    /\ nestedRun.pc = "doSomething"
    /\ nestedRun' = Call(nestedRun, "doSomething", "ifSomethingElse")
    /\ UNCHANGED <<sideEffect, earlyRun, notIndent>>

NestedIfSomethingElse ==
    /\ nestedRun.pc = "ifSomethingElse"
    /\ nestedRun' = Goto(nestedRun, IF nestedRun.cond["somethingElse"]
                                    THEN "doSomethingElse" ELSE "doTheOther")
    /\ UNCHANGED <<sideEffect, earlyRun, notIndent>>

NestedDoSomethingElse ==
    /\ nestedRun.pc = "doSomethingElse"
    /\ nestedRun' = Call(nestedRun, "doSomethingElse", "ifSomethingElseAgain")
    /\ UNCHANGED <<sideEffect, earlyRun, notIndent>>

NestedIfSomethingElseAgain ==
    /\ nestedRun.pc = "ifSomethingElseAgain"
    /\ nestedRun' = Goto(nestedRun, IF nestedRun.cond["somethingElseAgain"]
                                    THEN "doThing" ELSE "doDifferent")
    /\ UNCHANGED <<sideEffect, earlyRun, notIndent>>

NestedDoThing ==
    /\ nestedRun.pc = "doThing"
    /\ nestedRun' = Call(nestedRun, "doThing", "end")
    /\ UNCHANGED <<sideEffect, earlyRun, notIndent>>

NestedDoDifferent ==
    /\ nestedRun.pc = "doDifferent"
    /\ nestedRun' = Call(nestedRun, "doDifferent", "end")
    /\ UNCHANGED <<sideEffect, earlyRun, notIndent>>

NestedDoTheOther ==
    /\ nestedRun.pc = "doTheOther"
    /\ nestedRun' = Call(nestedRun, "doTheOther", "end")
    /\ UNCHANGED <<sideEffect, earlyRun, notIndent>>

NestedDoNothing ==
    /\ nestedRun.pc = "doNothing"
    /\ nestedRun' = Call(nestedRun, "doNothing", "end")
    /\ UNCHANGED <<sideEffect, earlyRun, notIndent>>

\* ---- the early-exit block, lines 302-316
EarlyIfNotSomething ==
    /\ earlyRun.pc = "start"
    /\ earlyRun' = Goto(earlyRun, IF ~earlyRun.cond["something"]
                                  THEN "doNothing" ELSE "doSomething")
    /\ UNCHANGED <<sideEffect, nestedRun, notIndent>>

\* doNothing(); return;
EarlyDoNothing ==
    /\ earlyRun.pc = "doNothing"
    /\ earlyRun' = Call(earlyRun, "doNothing", "end")
    /\ UNCHANGED <<sideEffect, nestedRun, notIndent>>

EarlyDoSomething ==
    /\ earlyRun.pc = "doSomething"
    /\ earlyRun' = Call(earlyRun, "doSomething", "ifNotSomethingElse")
    /\ UNCHANGED <<sideEffect, nestedRun, notIndent>>

EarlyIfNotSomethingElse ==
    /\ earlyRun.pc = "ifNotSomethingElse"
    /\ earlyRun' = Goto(earlyRun, IF ~earlyRun.cond["somethingElse"]
                                  THEN "doTheOther" ELSE "doSomethingElse")
    /\ UNCHANGED <<sideEffect, nestedRun, notIndent>>

\* The same block with the `return` of line 309 left out: control falls
\* through to doSomethingElse().
EarlyDoTheOtherNoReturn ==
    /\ earlyRun.pc = "doTheOther"
    /\ earlyRun' = Call(earlyRun, "doTheOther", "doSomethingElse")
    /\ UNCHANGED <<sideEffect, nestedRun, notIndent>>

\* doTheOther(); return;
EarlyDoTheOther ==
    /\ earlyRun.pc = "doTheOther"
    /\ earlyRun' = Call(earlyRun, "doTheOther", "end")
    /\ UNCHANGED <<sideEffect, nestedRun, notIndent>>

EarlyDoSomethingElse ==
    /\ earlyRun.pc = "doSomethingElse"
    /\ earlyRun' = Call(earlyRun, "doSomethingElse", "ifNotSomethingElseAgain")
    /\ UNCHANGED <<sideEffect, nestedRun, notIndent>>

EarlyIfNotSomethingElseAgain ==
    /\ earlyRun.pc = "ifNotSomethingElseAgain"
    /\ earlyRun' = Goto(earlyRun, IF ~earlyRun.cond["somethingElseAgain"]
                                  THEN "doDifferent" ELSE "doThing")
    /\ UNCHANGED <<sideEffect, nestedRun, notIndent>>

\* doDifferent(); return;
EarlyDoDifferent ==
    /\ earlyRun.pc = "doDifferent"
    /\ earlyRun' = Call(earlyRun, "doDifferent", "end")
    /\ UNCHANGED <<sideEffect, nestedRun, notIndent>>

EarlyDoThing ==
    /\ earlyRun.pc = "doThing"
    /\ earlyRun' = Call(earlyRun, "doThing", "end")
    /\ UNCHANGED <<sideEffect, nestedRun, notIndent>>

NextIndent ==
    \/ NestedIfSomething
    \/ NestedDoSomething
    \/ NestedIfSomethingElse
    \/ NestedDoSomethingElse
    \/ NestedIfSomethingElseAgain
    \/ NestedDoThing
    \/ NestedDoDifferent
    \/ NestedDoTheOther
    \/ NestedDoNothing
    \/ EarlyIfNotSomething
    \/ EarlyDoNothing
    \/ EarlyDoSomething
    \/ EarlyIfNotSomethingElse
    \/ EarlyDoTheOther
    \/ EarlyDoSomethingElse
    \/ EarlyIfNotSomethingElseAgain
    \/ EarlyDoDifferent
    \/ EarlyDoThing

SpecIndent == InitIndent /\ [][NextIndent]_vars

\* C1: whatever the three conditions are at the start and whatever the do*
\* calls do to them, once both blocks have run to their end they have made
\* exactly the same sequence of calls.
IndentFormsMakeSameCalls ==
    (nestedRun.pc = "end" /\ earlyRun.pc = "end")
        => nestedRun.calls = earlyRun.calls

\* Both blocks ended on doDifferent although somethingElseAgain was true at
\* the start: doSomethingElse changed it before it was read.
IndentWitness ==
    /\ nestedRun.pc = "end"
    /\ earlyRun.pc = "end"
    /\ "somethingElseAgain" \in sideEffect["doSomethingElse"]
    /\ "somethingElseAgain" \notin sideEffect["doSomething"]
    /\ earlyRun.calls = <<"doSomething", "doSomethingElse", "doDifferent">>
    /\ nestedRun.calls = earlyRun.calls

(***************************************************************************)
(* Lambdas (lines 373-414): the block with the cleanup written out three   *)
(* times and the block that calls a cleanup lambda.                        *)
(*                                                                         *)
(* A run records the steps it executes.  The cleanup is the three comment  *)
(* lines "Clean up this", "...", "Clean up that", each one step.  `site`   *)
(* is the copy of the cleanup being executed (written-out block) or the    *)
(* call site the lambda returns to (lambda block).                         *)
(***************************************************************************)
WentWrongCalls == {"somethingWentWrong", "somethingElseWentWrong"}

CleanupSites == {"first", "second", "last"}

Step(run, s, next) == [run EXCEPT !.pc = next, !.steps = Append(@, s)]

InitCleanup ==
    /\ wentWrong \in [WentWrongCalls -> BOOLEAN]
    /\ plainRun = [pc |-> "doSomething", site |-> "none", steps |-> <<>>]
    /\ lambdaRun = [pc |-> "defineCleanup", site |-> "none", steps |-> <<>>]
    /\ IdleIndent /\ IdleTernary /\ IdleExample /\ IdlePrefix /\ IdleLookup

\* ---- cleanup written out, lines 375-392
PlainDoSomething ==
    /\ plainRun.pc = "doSomething"
    /\ plainRun' = Step(plainRun, "doSomething", "ifSomethingWentWrong")
    /\ UNCHANGED <<wentWrong, lambdaRun, notCleanup>>

PlainIfSomethingWentWrong ==
    /\ plainRun.pc = "ifSomethingWentWrong"
    /\ plainRun' = IF wentWrong["somethingWentWrong"]
                   THEN [plainRun EXCEPT !.pc = "cleanUpThis", !.site = "first"]
                   ELSE [plainRun EXCEPT !.pc = "doSomethingElse"]
    /\ UNCHANGED <<wentWrong, lambdaRun, notCleanup>>

PlainDoSomethingElse ==
    /\ plainRun.pc = "doSomethingElse"
    /\ plainRun' = Step(plainRun, "doSomethingElse", "ifSomethingElseWentWrong")
    /\ UNCHANGED <<wentWrong, lambdaRun, notCleanup>>

PlainIfSomethingElseWentWrong ==
    /\ plainRun.pc = "ifSomethingElseWentWrong"
    /\ plainRun' = IF wentWrong["somethingElseWentWrong"]
                   THEN [plainRun EXCEPT !.pc = "cleanUpThis", !.site = "second"]
                   ELSE [plainRun EXCEPT !.pc = "doSomeOtherThing"]
    /\ UNCHANGED <<wentWrong, lambdaRun, notCleanup>>

PlainDoSomeOtherThing ==
    /\ plainRun.pc = "doSomeOtherThing"
    /\ plainRun' = [Step(plainRun, "doSomeOtherThing", "cleanUpThis")
                       EXCEPT !.site = "last"]
    /\ UNCHANGED <<wentWrong, lambdaRun, notCleanup>>

\* lines 377, 384, 390
PlainCleanUpThis ==
    /\ plainRun.pc = "cleanUpThis"
    /\ \E site \in CleanupSites :
          /\ plainRun.site = site
          /\ plainRun' = Step(plainRun, "cleanUpThis", "cleanUpEtc")
    /\ UNCHANGED <<wentWrong, lambdaRun, notCleanup>>

\* lines 378, 385, 391
PlainCleanUpEtc ==
    /\ plainRun.pc = "cleanUpEtc"
    /\ \E site \in CleanupSites :
          /\ plainRun.site = site
          /\ plainRun' = Step(plainRun, "cleanUpEtc", "cleanUpThat")
    /\ UNCHANGED <<wentWrong, lambdaRun, notCleanup>>

\* lines 379, 386, 392; the first two copies are followed by `return`, the
\* last one by the end of the block
PlainCleanUpThat ==
    /\ plainRun.pc = "cleanUpThat"
    /\ \E site \in CleanupSites :
          /\ plainRun.site = site
          /\ plainRun' = Step(plainRun, "cleanUpThat",
                              IF site = "last" THEN "end" ELSE "return")
    /\ UNCHANGED <<wentWrong, lambdaRun, notCleanup>>

PlainReturn ==
    /\ plainRun.pc = "return"
    /\ plainRun' = [plainRun EXCEPT !.pc = "end"]
    /\ UNCHANGED <<wentWrong, lambdaRun, notCleanup>>

\* ---- cleanup lambda, lines 396-413
\* auto cleanup = [](){ ... };  defining the lambda executes nothing
LambdaDefineCleanup ==
    /\ lambdaRun.pc = "defineCleanup"
    /\ lambdaRun' = [lambdaRun EXCEPT !.pc = "doSomething"]
    /\ UNCHANGED <<wentWrong, plainRun, notCleanup>>

LambdaDoSomething ==
    /\ lambdaRun.pc = "doSomething"
    /\ lambdaRun' = Step(lambdaRun, "doSomething", "ifSomethingWentWrong")
    /\ UNCHANGED <<wentWrong, plainRun, notCleanup>>

\* if (somethingWentWrong()) { cleanup(); ...
LambdaIfSomethingWentWrong ==
    /\ lambdaRun.pc = "ifSomethingWentWrong"
    /\ lambdaRun' = IF wentWrong["somethingWentWrong"]
                    THEN [lambdaRun EXCEPT !.pc = "cleanup", !.site = "first"]
                    ELSE [lambdaRun EXCEPT !.pc = "doSomethingElse"]
    /\ UNCHANGED <<wentWrong, plainRun, notCleanup>>

LambdaDoSomethingElse ==
    /\ lambdaRun.pc = "doSomethingElse"
    /\ lambdaRun' = Step(lambdaRun, "doSomethingElse", "ifSomethingElseWentWrong")
    /\ UNCHANGED <<wentWrong, plainRun, notCleanup>>

\* if (somethingElseWentWrong()) { cleanup(); ...
LambdaIfSomethingElseWentWrong ==
    /\ lambdaRun.pc = "ifSomethingElseWentWrong"
    /\ lambdaRun' = IF wentWrong["somethingElseWentWrong"]
                    THEN [lambdaRun EXCEPT !.pc = "cleanup", !.site = "second"]
                    ELSE [lambdaRun EXCEPT !.pc = "doSomeOtherThing"]
    /\ UNCHANGED <<wentWrong, plainRun, notCleanup>>

\* The block with the closing cleanup() of line 413 forgotten.
LambdaDoSomeOtherThingNoCleanup ==
    /\ lambdaRun.pc = "doSomeOtherThing"
    /\ lambdaRun' = Step(lambdaRun, "doSomeOtherThing", "end")
    /\ UNCHANGED <<wentWrong, plainRun, notCleanup>>

\* doSomeOtherThing(); cleanup();
LambdaDoSomeOtherThing ==
    /\ lambdaRun.pc = "doSomeOtherThing"
    /\ lambdaRun' = [Step(lambdaRun, "doSomeOtherThing", "cleanup")
                        EXCEPT !.site = "last"]
    /\ UNCHANGED <<wentWrong, plainRun, notCleanup>>

\* cleanup(): enter the lambda body (lines 404, 409, 413)
LambdaCallCleanup ==
    /\ lambdaRun.pc = "cleanup"
    /\ \E site \in CleanupSites :
          /\ lambdaRun.site = site
          /\ lambdaRun' = [lambdaRun EXCEPT !.pc = "cleanUpThis"]
    /\ UNCHANGED <<wentWrong, plainRun, notCleanup>>

\* the lambda body, lines 397-399
LambdaCleanUpThis ==
    /\ lambdaRun.pc = "cleanUpThis"
    /\ lambdaRun' = Step(lambdaRun, "cleanUpThis", "cleanUpEtc")
    /\ UNCHANGED <<wentWrong, plainRun, notCleanup>>

LambdaCleanUpEtc ==
    /\ lambdaRun.pc = "cleanUpEtc"
    /\ lambdaRun' = Step(lambdaRun, "cleanUpEtc", "cleanUpThat")
    /\ UNCHANGED <<wentWrong, plainRun, notCleanup>>

\* the last step of the body returns to the call site: `return` follows the
\* first two calls, the end of the block the last one
LambdaCleanUpThat ==
    /\ lambdaRun.pc = "cleanUpThat"
    /\ lambdaRun' = Step(lambdaRun, "cleanUpThat",
                         IF lambdaRun.site = "last" THEN "end" ELSE "return")
    /\ UNCHANGED <<wentWrong, plainRun, notCleanup>>

LambdaReturn ==
    /\ lambdaRun.pc = "return"
    /\ lambdaRun' = [lambdaRun EXCEPT !.pc = "end"]
    /\ UNCHANGED <<wentWrong, plainRun, notCleanup>>

NextCleanup ==
    \/ PlainDoSomething
    \/ PlainIfSomethingWentWrong
    \/ PlainDoSomethingElse
    \/ PlainIfSomethingElseWentWrong
    \/ PlainDoSomeOtherThing
    \/ PlainCleanUpThis
    \/ PlainCleanUpEtc
    \/ PlainCleanUpThat
    \/ PlainReturn
    \/ LambdaDefineCleanup
    \/ LambdaDoSomething
    \/ LambdaIfSomethingWentWrong
    \/ LambdaDoSomethingElse
    \/ LambdaIfSomethingElseWentWrong
    \/ LambdaDoSomeOtherThing
    \/ LambdaCallCleanup
    \/ LambdaCleanUpThis
    \/ LambdaCleanUpEtc
    \/ LambdaCleanUpThat
    \/ LambdaReturn

SpecCleanup == InitCleanup /\ [][NextCleanup]_vars

\* C2: whatever somethingWentWrong() and somethingElseWentWrong() return,
\* once both blocks have run to their end they have executed the same
\* sequence of doSomething, doSomethingElse, doSomeOtherThing and cleanup
\* steps.
CleanupFormsRunSameSteps ==
    (plainRun.pc = "end" /\ lambdaRun.pc = "end")
        => plainRun.steps = lambdaRun.steps

\* Nothing went wrong: both blocks ran all three do* steps and then the
\* cleanup, the lambda block through its third call of cleanup().
CleanupWitness ==
    /\ plainRun.pc = "end"
    /\ lambdaRun.pc = "end"
    /\ lambdaRun.site = "last"
    /\ lambdaRun.steps = <<"doSomething", "doSomethingElse", "doSomeOtherThing",
                           "cleanUpThis", "cleanUpEtc", "cleanUpThat">>
    /\ plainRun.steps = lambdaRun.steps

(***************************************************************************)
(* ternary operator (lines 541-557).                                       *)
(*                                                                         *)
(* `int r;` leaves r with an indeterminate value, so the declaration gives *)
(* r any value of the range; `writes` counts the assignments and           *)
(* initialisations that store a value in r.                                *)
(***************************************************************************)
MaxX == 6

XRange == (0 - MaxX) .. MaxX

InitTernary ==
    /\ x \in XRange
    /\ ifElseRun = [pc |-> "declare", r |-> "undeclared", writes |-> 0]
    /\ ternaryRun = [pc |-> "init", r |-> "undeclared", writes |-> 0]
    /\ IdleIndent /\ IdleCleanup /\ IdleExample /\ IdlePrefix /\ IdleLookup

\* int r; // can't be const
IfElseDeclare ==
    /\ ifElseRun.pc = "declare"
    /\ \E garbage \in XRange :
          ifElseRun' = [ifElseRun EXCEPT !.pc = "if", !.r = garbage]
    /\ UNCHANGED <<x, ternaryRun, notTernary>>

\* if (x == 2)
IfElseTest ==
    /\ ifElseRun.pc = "if"
    /\ ifElseRun' = [ifElseRun EXCEPT !.pc = IF x = 2 THEN "then" ELSE "else"]
    /\ UNCHANGED <<x, ternaryRun, notTernary>>

\* r = 2;
IfElseThen ==
    /\ ifElseRun.pc = "then"
    /\ ifElseRun' = [pc |-> "end", r |-> 2, writes |-> ifElseRun.writes + 1]
    /\ UNCHANGED <<x, ternaryRun, notTernary>>

\* r = 3;
IfElseElse ==
    /\ ifElseRun.pc = "else"
    /\ ifElseRun' = [pc |-> "end", r |-> 3, writes |-> ifElseRun.writes + 1]
    /\ UNCHANGED <<x, ternaryRun, notTernary>>

\* The conditional with `=` typed for `==`: x = 2 is an assignment whose
\* value, 2, is true.
TernaryValueAssignInCondition(v) == 2

\* x == 2 ? 2 : 3
TernaryValue(v) == IF v = 2 THEN 2 ELSE 3

\* const int r = x == 2 ? 2 : 3;
TernaryInit ==
    /\ ternaryRun.pc = "init"
    /\ ternaryRun' = [pc |-> "end", r |-> TernaryValue(x),
                      writes |-> ternaryRun.writes + 1]
    /\ UNCHANGED <<x, ifElseRun, notTernary>>

NextTernary ==
    \/ IfElseDeclare
    \/ IfElseTest
    \/ IfElseThen
    \/ IfElseElse
    \/ TernaryInit

SpecTernary == InitTernary /\ [][NextTernary]_vars

\* C3: for every x, once both blocks have run, the ternary block's r equals
\* the if/else block's r, that value is 2 when x is 2 and 3 otherwise, and
\* each block has stored a value in r exactly once.
TernarySameAsIfElse ==
    (ifElseRun.pc = "end" /\ ternaryRun.pc = "end")
        => /\ ternaryRun.r = ifElseRun.r
           /\ ternaryRun.r = (IF x = 2 THEN 2 ELSE 3)
           /\ ternaryRun.writes = 1
           /\ ifElseRun.writes = 1

\* x is 2 and both blocks have set r to 2.
TernaryWitness ==
    /\ x = 2
    /\ ifElseRun.pc = "end"
    /\ ternaryRun.pc = "end"
    /\ ternaryRun.r = 2
    /\ ifElseRun.r = 2

(***************************************************************************)
(* Reducing dependencies: class Example (lines 201-215).                   *)
(*                                                                         *)
(* The constructor's parameter is named provide_helper_ (line 206), like   *)
(* the member (line 214), so inside the constructor body provide_helper_   *)
(* is the parameter.  The member initialiser (line 207) reads              *)
(* provide_helper, a name the class does not declare: it is whatever       *)
(* object of that name the enclosing scope holds.  A DependencyHelper is   *)
(* a std::function: Empty, or one of the callables.                        *)
(***************************************************************************)
Empty == "empty"

CallerHelpers == {"helperA", "helperB", "helperC"}

DefaultHelper == "defaultDependencyHelper"

HelperValues == {Empty, DefaultHelper} \cup CallerHelpers

\* What a call site passes: nothing (the default argument {} is used), or a
\* DependencyHelper, which may itself be empty.
Arguments == {"omitted", Empty} \cup CallerHelpers

\* my_namespace::defaultDependencyHelper() is not defined in the file; it is
\* taken to return a non-empty helper.
defaultDependencyHelper == DefaultHelper

InitExample ==
    /\ helpers \in [provide_helper : HelperValues]
    /\ ctor = [pc |-> "idle", argument |-> "none", parameter |-> Empty,
               member |-> "unconstructed"]
    /\ IdleIndent /\ IdleCleanup /\ IdleTernary /\ IdlePrefix /\ IdleLookup

\* Example(provide_helper_ = {}): the call binds the parameter
ExampleCall ==
    /\ ctor.pc = "idle"
    /\ \E a \in Arguments :
          ctor' = [pc |-> "memberInit", argument |-> a,
                   parameter |-> IF a = "omitted" THEN Empty ELSE a,
                   member |-> "unconstructed"]
    /\ UNCHANGED <<helpers, notExample>>

\* : provide_helper_(std::move(provide_helper))
\* The member is move-constructed from provide_helper, which is left valid
\* but unspecified: it keeps its target or becomes empty.
ExampleMemberInit ==
    /\ ctor.pc = "memberInit"
    /\ ctor' = [ctor EXCEPT !.pc = "if", !.member = helpers.provide_helper]
    /\ \E left \in {Empty, helpers.provide_helper} :
          helpers' = [helpers EXCEPT !.provide_helper = left]
    /\ UNCHANGED notExample

\* if (!provide_helper_)
ExampleIfEmpty ==
    /\ ctor.pc = "if"
    /\ ctor' = [ctor EXCEPT !.pc = IF ctor.parameter = Empty
                                   THEN "assignDefault" ELSE "constructed"]
    /\ UNCHANGED <<helpers, notExample>>

\* provide_helper_ = my_namespace::defaultDependencyHelper();
ExampleAssignDefault ==
    /\ ctor.pc = "assignDefault"
    /\ ctor' = [ctor EXCEPT !.pc = "constructed",
                            !.parameter = defaultDependencyHelper]
    /\ UNCHANGED <<helpers, notExample>>

NextExample ==
    \/ ExampleCall
    \/ ExampleMemberInit
    \/ ExampleIfEmpty
    \/ ExampleAssignDefault

SpecExample == InitExample /\ [][NextExample]_vars

\* C6: after the construction of an Example the member provide_helper_ is
\* not empty: it is the helper the caller supplied when the caller supplied
\* a non-empty one, and the default helper when the caller supplied none or
\* an empty one.
ExampleStoresHelper ==
    ctor.pc = "constructed"
        => /\ ctor.member # Empty
           /\ ctor.argument \in CallerHelpers => ctor.member = ctor.argument
           /\ ctor.argument \in {"omitted", Empty}
                 => ctor.member = defaultDependencyHelper

(***************************************************************************)
(* Algorithms and data structures: find the prefix of a size (lines        *)
(* 86-127).                                                                *)
(*                                                                         *)
(* The factors reach 1ULL << 60, so an unsigned long long is kept as four  *)
(* 16-bit limbs, least significant first, and the arithmetic is done limb  *)
(* by limb, modulo 2^64.                                                   *)
(***************************************************************************)
LimbBase == 2 ^ 16

\* the unsigned long long with value n, for n < 2^31
ULL(n) == <<n % LimbBase, n \div LimbBase, 0, 0>>

RECURSIVE MulCarry(_, _, _, _)
\* a * m + carry from limb i on, as the limbs i..4 of the product
MulCarry(a, m, i, carry) ==
    IF i > 4 THEN <<>>
    ELSE LET p == a[i] * m + carry
         IN  <<p % LimbBase>> \o MulCarry(a, m, i + 1, p \div LimbBase)

\* a * m modulo 2^64, for a small m
Mul(a, m) == MulCarry(a, m, 1, 0)

\* a + n modulo 2^64, for a small n
RECURSIVE AddCarry(_, _, _)
AddCarry(a, i, carry) ==
    IF i > 4 THEN <<>>
    ELSE LET p == a[i] + carry
         IN  <<p % LimbBase>> \o AddCarry(a, i + 1, p \div LimbBase)

Add(a, n) == AddCarry(a, 1, n)

\* a << k: the bits move up k \div 16 whole limbs and k % 16 places within
\* the limbs; bits shifted out of the 64 are lost
ShiftLeft(a, k) ==
    LET shifted == Mul(a, 2 ^ (k % 16))
        up == k \div 16
        limb(i) == IF i > up THEN shifted[i - up] ELSE 0
    IN  <<limb(1), limb(2), limb(3), limb(4)>>

RECURSIVE LessFrom(_, _, _)
\* a < b, comparing from limb i down
LessFrom(a, b, i) ==
    IF i = 0 THEN FALSE
    ELSE IF a[i] # b[i] THEN a[i] < b[i]
    ELSE LessFrom(a, b, i - 1)

Less(a, b) == LessFrom(a, b, 4)

LessEq(a, b) == ~Less(b, a)

IsZero(a) == \A i \in 1 .. 4 : a[i] = 0

\* constexpr std::array<std::string_view, 5> prefixes {"", "k", "M", "G", "T"};
\* indexed from 0 in the code, from 1 here
prefixes == <<"", "k", "M", "G", "T">>

\* constexpr double siFactor {1000.0};
siFactor == 1000

\* static constexpr std::array<PrefixSpec, 7> sortedPrefixes; '\0' is ""
sortedPrefixes ==
    << [prefix |-> "E", factor |-> ShiftLeft(ULL(1), 60)],
       [prefix |-> "P", factor |-> ShiftLeft(ULL(1), 50)],
       [prefix |-> "T", factor |-> ShiftLeft(ULL(1), 40)],
       [prefix |-> "G", factor |-> ShiftLeft(ULL(1), 30)],
       [prefix |-> "M", factor |-> ShiftLeft(ULL(1), 20)],
       [prefix |-> "k", factor |-> ShiftLeft(ULL(1), 10)],
       [prefix |-> "",  factor |-> ULL(0)] >>

MaxDense == 1100

\* The sizes tried: every size up to MaxDense, sizes at, next to and between
\* the powers of 1000 and of 1024, and the largest unsigned long long.
Sizes ==
    {ULL(n) : n \in 0 .. MaxDense}
    \cup {ULL(2 ^ 20 - 1), ULL(2 ^ 30 - 1)}
    \cup {Add(Mul(ULL(siFactor), siFactor), d) : d \in {0, 1}}
    \cup {Add(Mul(Mul(ULL(siFactor), siFactor), siFactor), d) : d \in {0, 1}}
    \cup {Add(Mul(Mul(Mul(ULL(siFactor), siFactor), siFactor), siFactor), d) :
             d \in {0, 1}}
    \cup {Add(ShiftLeft(ULL(1), bits), d) : bits \in {20, 30, 40, 50, 60}, d \in {0, 1}}
    \cup {Add(ShiftLeft(ULL(1), bits), LimbBase - 1) : bits \in {19, 29, 39, 49, 59}}
    \cup {<<LimbBase - 1, LimbBase - 1, LimbBase - 1, LimbBase - 1>>}

InitPrefix ==
    /\ bytes \in Sizes
    /\ whileRun = [pc |-> "init", base |-> 0, inUnits |-> "undeclared",
                   prefix |-> "undeclared"]
    /\ findIfRun = [pc |-> "find_if", it |-> 1, res |-> 0,
                    prefix |-> "undeclared"]
    /\ IdleIndent /\ IdleCleanup /\ IdleTernary /\ IdleExample /\ IdleLookup

\* ---- the while loop, lines 88-98
\* inUnits is a double.  It is kept as the exact quotient num / den: den is
\* a power of 1000 no larger than 10^12, and an integer num that exceeds
\* 1000 * den exceeds it by at least 1, so num / den exceeds 1000 by at
\* least 10^-9, far more than the rounding of the conversion and of four
\* divisions can move it; when num / den is exactly 1000 every division is
\* exact.  The comparison with siFactor therefore has the exact outcome.

\* size_t base = 0; double inUnits = bytes;
WhileInit ==
    /\ whileRun.pc = "init"
    /\ whileRun' = [whileRun EXCEPT !.pc = "while", !.base = 0,
                        !.inUnits = [num |-> bytes, den |-> ULL(1)]]
    /\ UNCHANGED <<bytes, findIfRun, notPrefix>>

\* inUnits > siFactor
Exceeds(inUnits, f) == Less(Mul(inUnits.den, f), inUnits.num)

\* while (inUnits > siFactor && base < prefixes.size() - 1)
WhileTest ==
    /\ whileRun.pc = "while"
    /\ whileRun' = [whileRun EXCEPT !.pc =
                       IF /\ Exceeds(whileRun.inUnits, siFactor)
                          /\ whileRun.base < Len(prefixes) - 1
                       THEN "body" ELSE "select"]
    /\ UNCHANGED <<bytes, findIfRun, notPrefix>>

\* ++base; inUnits /= siFactor;
WhileBody ==
    /\ whileRun.pc = "body"
    /\ whileRun' = [whileRun EXCEPT !.pc = "while", !.base = @ + 1,
                        !.inUnits.den = Mul(@, siFactor)]
    /\ UNCHANGED <<bytes, findIfRun, notPrefix>>

\* auto prefix = prefixes[base];
WhileSelect ==
    /\ whileRun.pc = "select"
    /\ whileRun' = [whileRun EXCEPT !.pc = "end",
                        !.prefix = prefixes[whileRun.base + 1]]
    /\ UNCHANGED <<bytes, findIfRun, notPrefix>>

\* ---- find_if, lines 119-126
\* Line 119 passes `prefixes`, whose elements have no factor; the array
\* searched is sortedPrefixes, the one the block defines, from its first
\* element on.

\* [&](const auto& spec) { return spec.factor <= size; }
FactorFits(spec, size) == LessEq(spec.factor, size)

\* find_if tries the element at `it`: it stops there when the lambda
\* returns true and moves on otherwise
FindIfTry ==
    /\ findIfRun.pc = "find_if"
    /\ findIfRun.it <= Len(sortedPrefixes)
    /\ findIfRun' = IF FactorFits(sortedPrefixes[findIfRun.it], bytes)
                    THEN [findIfRun EXCEPT !.pc = "return", !.res = findIfRun.it]
                    ELSE [findIfRun EXCEPT !.it = @ + 1]
    /\ UNCHANGED <<bytes, whileRun, notPrefix>>

\* return res->factor ? format("{:.1f} {}B", ..., res->prefix)
\*                    : format("{} B", size);
FindIfReturn ==
    /\ findIfRun.pc = "return"
    /\ findIfRun' = [findIfRun EXCEPT !.pc = "end",
                        !.prefix = IF ~IsZero(sortedPrefixes[findIfRun.res].factor)
                                   THEN sortedPrefixes[findIfRun.res].prefix
                                   ELSE ""]
    /\ UNCHANGED <<bytes, whileRun, notPrefix>>

NextPrefix ==
    \/ WhileInit
    \/ WhileTest
    \/ WhileBody
    \/ WhileSelect
    \/ FindIfTry
    \/ FindIfReturn

SpecPrefix == InitPrefix /\ [][NextPrefix]_vars

\* C5: when find_if looks at the 'M' element its factor, 1ULL << 20, is
\* 2^20 and is 1024, and when it looks at the 'k' element its factor,
\* 1ULL << 10, is 2^10 and is 1024, as the comments of lines 115 and 116 say.
FactorsAsCommented ==
    (findIfRun.pc = "find_if" /\ findIfRun.it <= Len(sortedPrefixes))
        => LET spec == sortedPrefixes[findIfRun.it]
           IN  /\ spec.prefix = "M" => /\ spec.factor = ULL(2 ^ 20)
                                       /\ spec.factor = ULL(1024)
               /\ spec.prefix = "k" => /\ spec.factor = ULL(2 ^ 10)
                                       /\ spec.factor = ULL(1024)

\* C7: for every size, once both blocks have run, the prefix the find_if
\* block prints is the prefix the while loop selected.
FindIfSelectsSamePrefix ==
    (whileRun.pc = "end" /\ findIfRun.pc = "end")
        => findIfRun.prefix = whileRun.prefix

(***************************************************************************)
(* The code blocks of the file and the names each declares and uses.       *)
(*                                                                         *)
(* A use of a name in a block is resolved as a reader resolves it: in the  *)
(* block itself first, then in the other blocks of the file, in order.  A  *)
(* name no block declares (doSomething, x, size, std, ...) is free: it     *)
(* stands for the surrounding program the block would be pasted into.      *)
(***************************************************************************)
Block(first, last, declares, uses) ==
    [first |-> first, last |-> last, declares |-> declares, uses |-> uses]

Snippets ==
    << Block(49, 70, {"it", "item", "name", "value"},
             {"itemsMap", "it", "item", "name", "value", "doSomething",
              "KeyType", "ValueType"}),
       Block(73, 81, {"result"}, {"stuff", "do_something"}),
       Block(87, 99, {"prefixes", "base", "inUnits", "siFactor", "prefix"},
             {"bytes", "prefixes", "base", "inUnits", "siFactor"}),
       Block(104, 127, {"PrefixSpec", "prefix", "factor", "sortedPrefixes",
                        "res", "spec"},
             {"PrefixSpec", "prefixes", "spec", "factor", "size", "res",
              "prefix", "fmt"}),
       Block(180, 184, {"fing", "method", "values"},
             {"Application", "SomeDistantClass", "AnotherDistantClass"}),
       Block(198, 216, {"Example", "DependencyHelper", "provide_helper_"},
             {"Dependency", "DependencyHelper", "provide_helper_",
              "provide_helper", "my_namespace"}),
       Block(282, 298, {},
             {"something", "somethingElse", "somethingElseAgain",
              "doSomething", "doSomethingElse", "doThing", "doDifferent",
              "doTheOther", "doNothing"}),
       Block(301, 317, {},
             {"something", "somethingElse", "somethingElseAgain",
              "doSomething", "doSomethingElse", "doThing", "doDifferent",
              "doTheOther", "doNothing"}),
       Block(325, 328, {"thing", "thing3"}, {"AType", "calcVal"}),
       Block(344, 349, {"Something", "_value_", "_something_"}, {}),
       Block(374, 393, {},
             {"doSomething", "somethingWentWrong", "doSomethingElse",
              "somethingElseWentWrong", "doSomeOtherThing"}),
       Block(395, 414, {"cleanup"},
             {"cleanup", "doSomething", "somethingWentWrong",
              "doSomethingElse", "somethingElseWentWrong",
              "doSomeOtherThing"}),
       Block(435, 437, {}, {"displayLines"}),
       Block(440, 443, {"sandardScreenLength"},
             {"displayLines", "sandardScreenLength"}),
       Block(458, 466, {"Dog", "color", "redDog", "dog", "redDogColor"},
             {"Dog"}),
       Block(480, 484, {"func", "str", "num"}, {"str", "num"}),
       Block(486, 488, {"name", "value"}, {"func"}),
       Block(544, 552, {"r"}, {"x", "r"}),
       Block(555, 557, {"r"}, {"x"}),
       Block(583, 587, {"fred", "martha", "george"}, {"Item"}),
       Block(602, 612, {"Pair", "numItems", "items"}, {"Pair", "numItems"}),
       Block(616, 630, {"Button", "name", "height", "width", "numButtons",
                        "buttonDefs"},
             {"Button", "numButtons"}) >>

InitNames ==
    /\ lookup = [pc |-> "idle", block |-> 0, name |-> "", other |-> 0,
                 found |-> "nothing"]
    /\ IdleIndent /\ IdleCleanup /\ IdleTernary /\ IdleExample /\ IdlePrefix

\* take up a use of a name in one of the blocks
LookupUse ==
    /\ lookup.pc = "idle"
    /\ \E b \in 1 .. Len(Snippets) : \E n \in Snippets[b].uses :
          lookup' = [pc |-> "own", block |-> b, name |-> n, other |-> 0,
                     found |-> "nothing"]
    /\ UNCHANGED notLookup

\* the block's own declarations come first
LookupOwn ==
    /\ lookup.pc = "own"
    /\ lookup' = IF lookup.name \in Snippets[lookup.block].declares
                 THEN [lookup EXCEPT !.pc = "resolved", !.found = "own"]
                 ELSE [lookup EXCEPT !.pc = "others", !.other = 1]
    /\ UNCHANGED notLookup

\* then the other blocks, one after the other
LookupOther ==
    /\ lookup.pc = "others"
    /\ lookup' =
          IF lookup.other > Len(Snippets)
          THEN [lookup EXCEPT !.pc = "resolved", !.found = "free"]
          ELSE IF /\ lookup.other # lookup.block
                  /\ lookup.name \in Snippets[lookup.other].declares
          THEN [lookup EXCEPT !.pc = "resolved", !.found = "otherBlock"]
          ELSE [lookup EXCEPT !.other = @ + 1]
    /\ UNCHANGED notLookup

LookupNext ==
    /\ lookup.pc = "resolved"
    /\ lookup' = [lookup EXCEPT !.pc = "idle"]
    /\ UNCHANGED notLookup

NextNames ==
    \/ LookupUse
    \/ LookupOwn
    \/ LookupOther
    \/ LookupNext

SpecNames == InitNames /\ [][NextNames]_vars

\* C4: no use of a name in a block resolves to a declaration that only
\* another block holds; in particular none of the find_if block (lines
\* 104-127) does.
SnippetsSelfContained ==
    lookup.pc = "resolved" => lookup.found # "otherBlock"

====
